---- MODULE Spec2Model ----
(***************************************************************************)
(* Kochi Guide bot (src/main.py): start-up configuration check, the four   *)
(* Telegram handlers with their await points, the per-user user_data       *)
(* dictionary, and the two tool functions the model may call.              *)
(***************************************************************************)
EXTENDS Integers, Sequences, FiniteSets, TLC

\* ------------------------------------------------------------------ bounds
\* Coordinates a location message carries are drawn from 0..MaxCoord
\* (0 is the equator / the prime meridian).
MaxCoord == 1
\* Exchanges of one chat that are followed since its last /reset.
MaxTurns == 2
\* Longest "results" list the places provider returns.
MaxResults == 6

Users == {"u1", "u2"}
Texts == {"a", "b"}
Replies == {"r"}
\* The senders and texts of the three environments the bot is run in.
AllUsers == Users
OneUser == {"u1"}
OneText == {"a"}
Coords == 0..MaxCoord
\* Handler coroutines that can be in flight at once.
Slots == {1, 2}

\* ------------------------------------------------------- Python values
PyNone == [t |-> "none"]
PyFloat(x) == [t |-> "float", v |-> x]
PyStr(s) == [t |-> "str", v |-> s]
PyList(q) == [t |-> "list", v |-> q]
PyDict(d) == [t |-> "dict", v |-> d]

\* bool(x) as `if lat and lon` applies it: None, 0.0, "" and empty
\* containers are false.
Truthy(p) ==
  CASE p.t = "none" -> FALSE
    [] p.t = "float" -> p.v # 0
    [] p.t = "str" -> p.v # ""
    [] p.t = "list" -> p.v # <<>>
    [] OTHER -> DOMAIN p.v # {}

EmptyDict == [k \in {} |-> PyNone]
DictGet(d, k, default) == IF k \in DOMAIN d THEN d[k] ELSE default
DictSet(d, k, val) == [x \in DOMAIN d \cup {k} |-> IF x = k THEN val ELSE d[x]]

Digits == <<"0", "1", "2", "3", "4", "5", "6", "7", "8", "9">>
\* str() of a float with an integral value, as an f-string renders it.
FloatStr(n) == Digits[n + 1] \o ".0"

\* ------------------------------------------------------------ the state
VARIABLES
  env,                \* os.getenv of the four keys
  main_pc,            \* position of the module-level code and of main()
  sdk_configured,     \* genai.configure has run
  handlers,           \* handlers added to the application
  concurrent_updates, \* Application setting: may handlers interleave
  user_data,          \* context.user_data, one dict per user
  tasks,              \* handler coroutines, one per slot
  last_loc,           \* history: u's latest location message since /reset
  turns,              \* history: the chat's exchanges since /reset
  http,               \* the outcome of the tool's HTTP GET
  requests_new,       \* requests >= 2.27: JSONDecodeError is a RequestException
  tool_pc,            \* "idle", "weather_done", "places_done"
  tool_out,           \* what the tool call gave its caller
  http_calls          \* HTTP GETs issued by the current tool call

vars == <<env, main_pc, sdk_configured, handlers, concurrent_updates,
          user_data, tasks, last_loc, turns,
          http, requests_new, tool_pc, tool_out, http_calls>>

startup_vars == <<env, main_pc, sdk_configured, handlers, concurrent_updates>>
bot_vars == <<user_data, tasks, last_loc, turns>>
tool_vars == <<http, requests_new, tool_pc, tool_out, http_calls>>

\* ------------------------------------------------------------- start-up
KeyNames == {"GEMINI_API_KEY", "TELEGRAM_BOT_TOKEN",
             "OPENWEATHER_API_KEY", "GOOGLE_PLACES_API_KEY"}
\* os.getenv gives None for an unset variable, else its string.
EnvValues == {PyNone, PyStr(""), PyStr("key")}

\* The phase-2 check, which knew three keys only.
AllKeysPresentThree(e) ==
  \A k \in KeyNames \ {"GOOGLE_PLACES_API_KEY"} : Truthy(e[k])

\* all([GEMINI_API_KEY, TELEGRAM_BOT_TOKEN, OPENWEATHER_API_KEY,
\*      GOOGLE_PLACES_API_KEY])
AllKeysPresent(e) == \A k \in KeyNames : Truthy(e[k])

\* if not all([...]): logger.error(...); exit()
CheckKeys ==
  /\ main_pc = "check_keys"
  /\ main_pc' = IF AllKeysPresent(env) THEN "configure" ELSE "exited"
  /\ UNCHANGED <<env, sdk_configured, handlers, concurrent_updates>>
  /\ UNCHANGED <<bot_vars, tool_vars>>

\* genai.configure(api_key=GEMINI_API_KEY)
ConfigureGenai ==
  /\ main_pc = "configure"
  /\ sdk_configured' = TRUE
  /\ main_pc' = "build_model"
  /\ UNCHANGED <<env, handlers, concurrent_updates>>
  /\ UNCHANGED <<bot_vars, tool_vars>>

\* AGENT_MODEL = genai.GenerativeModel(...); then main() builds the
\* application.
BuildApplication ==
  /\ main_pc = "build_model"
  /\ main_pc' = "add_handlers"
  /\ UNCHANGED <<env, sdk_configured, handlers, concurrent_updates>>
  /\ UNCHANGED <<bot_vars, tool_vars>>

HandlerOrder == <<"start", "reset", "location", "message">>

\* application.add_handler(...), in the order of main().
AddHandler ==
  /\ main_pc = "add_handlers"
  /\ Cardinality(handlers) < Len(HandlerOrder)
  /\ handlers' = handlers \cup {HandlerOrder[Cardinality(handlers) + 1]}
  /\ UNCHANGED <<env, main_pc, sdk_configured, concurrent_updates>>
  /\ UNCHANGED <<bot_vars, tool_vars>>

\* application.run_polling()
RunPolling ==
  /\ main_pc = "add_handlers"
  /\ Cardinality(handlers) = Len(HandlerOrder)
  /\ main_pc' = "polling"
  /\ UNCHANGED <<env, sdk_configured, handlers, concurrent_updates>>
  /\ UNCHANGED <<bot_vars, tool_vars>>

\* ------------------------------------------------------------- handlers
Apology == "Sorry, an error occurred. Please try again."
Greeting == "Namaste!"
ResetReply == "Okay, let's start a fresh conversation!"
LocationReply == "Thanks, I've got your location!"

NoLoc == <<>>
IdleTask ==
  [kind |-> "none", user |-> "u1", text |-> "", pc |-> "idle",
   prompt |-> "", history |-> <<>>, response |-> "", sent |-> <<>>,
   failed |-> "", loc_seen |-> NoLoc]

Finished(t) == t.pc \in {"idle", "done", "escaped"}

\* A coroutine that returned or raised is gone at the loop's next step.
Reap(ts) == [s \in Slots |-> IF Finished(ts[s]) THEN IdleTask ELSE ts[s]]

FreeSlots == {s \in Slots : Finished(tasks[s])}
FreeSlot == CHOOSE s \in FreeSlots : \A t \in FreeSlots : s <= t

\* An update can be given to a handler: the application is polling, the
\* handler is registered, and unless updates are processed concurrently no
\* other handler is in flight.
CanDispatch(kind) ==
  /\ main_pc = "polling"
  /\ kind \in handlers
  /\ FreeSlots # {}
  /\ concurrent_updates \/ FreeSlots = Slots

NewTask(kind, u, text, pc) ==
  [IdleTask EXCEPT !.kind = kind, !.user = u, !.text = text, !.pc = pc]

\* The task of /reset notes what location message it wiped out.
NewResetTask(u) ==
  [NewTask("reset", u, ResetReply, "await_reply") EXCEPT
     !.loc_seen = last_loc[u]]

Dispatched(t) == [Reap(tasks) EXCEPT ![FreeSlot] = t]
Stepped(s, t) == [Reap(tasks) EXCEPT ![s] = t]

\* start_command: await update.message.reply_text(greeting)
StartCommand(u) ==
  /\ CanDispatch("start")
  /\ tasks' = Dispatched(NewTask("start", u, Greeting, "await_reply"))
  /\ UNCHANGED <<user_data, last_loc, turns>>
  /\ UNCHANGED <<startup_vars, tool_vars>>

\* Only the latitude is cleared.
ClearLatitudeOnly(d) == [k \in DOMAIN d \ {"latitude"} |-> d[k]]

\* context.user_data.clear()
Clear(d) == EmptyDict

\* reset_command: clear user_data, then await the reply.
ResetCommand(u) ==
  /\ CanDispatch("reset")
  /\ user_data' = [user_data EXCEPT ![u] = Clear(user_data[u])]
  /\ tasks' = Dispatched(NewResetTask(u))
  /\ last_loc' = [last_loc EXCEPT ![u] = NoLoc]
  /\ turns' = [turns EXCEPT ![u] = <<>>]
  /\ UNCHANGED <<startup_vars, tool_vars>>

\* The longitude is stored after an await the latitude is stored before,
\* so that the state at the await holds the latitude only.
StoreLatitudeOnly(d, lat, lon) == DictSet(d, "latitude", PyFloat(lat))

\* The first location of a user is kept; later ones are ignored.
StoreFirstOnly(d, lat, lon) ==
  IF DOMAIN d = {}
  THEN DictSet(DictSet(d, "latitude", PyFloat(lat)), "longitude", PyFloat(lon))
  ELSE d

\* context.user_data['latitude'] = lat; context.user_data['longitude'] = lon
StoreLocation(d, lat, lon) ==
  DictSet(DictSet(d, "latitude", PyFloat(lat)), "longitude", PyFloat(lon))

\* handle_location: both stores, then await the reply.
HandleLocation(u, lat, lon) ==
  /\ CanDispatch("location")
  /\ user_data' = [user_data EXCEPT ![u] = StoreLocation(user_data[u], lat, lon)]
  /\ tasks' = Dispatched(NewTask("location", u, LocationReply, "await_reply"))
  /\ last_loc' = [last_loc EXCEPT ![u] = <<lat, lon>>]
  /\ UNCHANGED turns
  /\ UNCHANGED <<startup_vars, tool_vars>>

\* The reply_text awaited by start_command, reset_command and
\* handle_location returns or raises; nothing catches it.
CommandReplyDone(s, ok) ==
  /\ tasks[s].kind \in {"start", "reset", "location"}
  /\ tasks[s].pc = "await_reply"
  /\ tasks' = Stepped(s,
       IF ok THEN [tasks[s] EXCEPT !.pc = "done", !.sent = <<tasks[s].text>>]
             ELSE [tasks[s] EXCEPT !.pc = "escaped"])
  /\ UNCHANGED <<user_data, last_loc, turns>>
  /\ UNCHANGED <<startup_vars, tool_vars>>

\* handle_message up to its first await:
\* await context.bot.send_chat_action(chat_id=chat_id, action='typing')
HandleMessage(u, text) ==
  /\ CanDispatch("message")
  /\ Len(turns[u]) < MaxTurns
  /\ tasks' = Dispatched(NewTask("message", u, text, "await_typing"))
  /\ UNCHANGED <<user_data, last_loc, turns>>
  /\ UNCHANGED <<startup_vars, tool_vars>>

LocatedPrompt(lat, lon, text) ==
  "The user is at location (latitude=" \o FloatStr(lat) \o ", longitude="
    \o FloatStr(lon) \o ") and is asking: '" \o text \o "'"

\* lat = user_data.get('latitude'); lon = user_data.get('longitude')
\* prompt = user_message; if lat and lon: prompt = f"..."
BuildPrompt(d, text) ==
  LET lat == DictGet(d, "latitude", PyNone)
      lon == DictGet(d, "longitude", PyNone)
  IN IF Truthy(lat) /\ Truthy(lon)
     THEN LocatedPrompt(lat.v, lon.v, text)
     ELSE text

\* AGENT_MODEL.start_chat(enable_automatic_function_calling=True): no
\* history argument, so the session starts empty.
StartChat(u) == <<>>

\* (The task's field failed names the first step that raised.)
\* The typing indicator returned or raised. It is awaited before the try:
\* a raise leaves the handler. Otherwise the prompt is built and the
\* session started inside the try, and send_message_async is awaited;
\* start_chat raising is caught and the apology awaited. The task holds
\* the prompt and the session's history while send_message_async is
\* pending (neither is read after it), with the user's latest location
\* message at that moment.
MessageAfterTyping(s, typing_ok, start_ok) ==
  /\ tasks[s].kind = "message"
  /\ tasks[s].pc = "await_typing"
  /\ tasks' = Stepped(s,
       LET t == tasks[s]
           prompt == BuildPrompt(user_data[t.user], t.text)
       IN IF ~typing_ok THEN [t EXCEPT !.pc = "escaped", !.failed = "typing"]
          ELSE IF ~start_ok
            THEN [t EXCEPT !.pc = "await_apology", !.failed = "start_chat"]
            ELSE [t EXCEPT !.pc = "await_model", !.prompt = prompt,
                           !.history = StartChat(t.user),
                           !.loc_seen = last_loc[t.user]])
  /\ UNCHANGED <<user_data, last_loc, turns>>
  /\ UNCHANGED <<startup_vars, tool_vars>>

ModelOutcomes == {"raise", "no_text"} \cup Replies

\* send_message_async returned or raised; response.text is read (it raises
\* when the response holds no text); then reply_text is awaited. Any raise
\* goes to the except clause, which awaits the apology.
MessageAfterModel(s, outcome) ==
  /\ tasks[s].kind = "message"
  /\ tasks[s].pc = "await_model"
  /\ outcome \in Replies => Len(turns[tasks[s].user]) < MaxTurns
  /\ tasks' = Stepped(s,
       IF outcome \in Replies
       THEN [tasks[s] EXCEPT !.pc = "await_reply", !.response = outcome,
                             !.prompt = "", !.history = <<>>,
                             !.loc_seen = NoLoc]
       ELSE [tasks[s] EXCEPT !.pc = "await_apology", !.prompt = "",
                             !.history = <<>>, !.loc_seen = NoLoc,
                             !.failed = IF outcome = "raise" THEN "model"
                                        ELSE "text"])
  /\ turns' = IF outcome \in Replies
              THEN [turns EXCEPT ![tasks[s].user] =
                      Append(@, <<tasks[s].text, outcome>>)]
              ELSE turns
  /\ UNCHANGED <<user_data, last_loc>>
  /\ UNCHANGED <<startup_vars, tool_vars>>

\* await update.message.reply_text(ai_response_text) returned or raised.
MessageAfterReply(s, ok) ==
  /\ tasks[s].kind = "message"
  /\ tasks[s].pc = "await_reply"
  /\ tasks' = Stepped(s,
       IF ok THEN [tasks[s] EXCEPT !.pc = "done",
                                   !.sent = Append(@, tasks[s].response)]
             ELSE [tasks[s] EXCEPT !.pc = "await_apology", !.failed = "reply"])
  /\ UNCHANGED <<user_data, last_loc, turns>>
  /\ UNCHANGED <<startup_vars, tool_vars>>

\* except Exception: await update.message.reply_text(apology) returned or
\* raised; a raise here leaves the handler.
MessageAfterApology(s, ok) ==
  /\ tasks[s].kind = "message"
  /\ tasks[s].pc = "await_apology"
  /\ tasks' = Stepped(s,
       IF ok THEN [tasks[s] EXCEPT !.pc = "done", !.sent = Append(@, Apology)]
             ELSE [tasks[s] EXCEPT !.pc = "escaped"])
  /\ UNCHANGED <<user_data, last_loc, turns>>
  /\ UNCHANGED <<startup_vars, tool_vars>>

\* ---------------------------------------------------------------- JSON
\* A JSON text, by its syntax: what json.dumps writes and response.json()
\* reads. An object is the sequence of its <<key, value>> members.
JNull == [j |-> "null"]
JNum(n) == [j |-> "num", v |-> n]
JStr(x) == [j |-> "str", v |-> x]
JArr(q) == [j |-> "arr", v |-> q]
JObj(members) == [j |-> "obj", v |-> members]
\* A body that is no JSON text.
NotJson == [j |-> "invalid"]

\* A Python dict here is PyDict of its <<key, value>> items in insertion
\* order; an exception in flight is ExcVal of its class.
ExcVal(name) == [t |-> "exc", v |-> name]
IsExc(p) == p.t = "exc"

RECURSIVE JsonLoads(_)
\* response.json() on a body that is JSON: null is None, an object a dict.
JsonLoads(b) ==
  CASE b.j = "null" -> PyNone
    [] b.j = "num" -> PyFloat(b.v)
    [] b.j = "str" -> PyStr(b.v)
    [] b.j = "arr" -> PyList([i \in 1..Len(b.v) |-> JsonLoads(b.v[i])])
    [] OTHER -> PyDict([i \in 1..Len(b.v) |->
                          <<b.v[i][1], JsonLoads(b.v[i][2])>>])

RECURSIVE JsonDumps(_)
\* json.dumps: None is null, a dict an object with its keys in order.
JsonDumps(p) ==
  CASE p.t = "none" -> JNull
    [] p.t = "float" -> JNum(p.v)
    [] p.t = "str" -> JStr(p.v)
    [] p.t = "list" -> JArr([i \in 1..Len(p.v) |-> JsonDumps(p.v[i])])
    [] OTHER -> JObj([i \in 1..Len(p.v) |->
                        <<p.v[i][1], JsonDumps(p.v[i][2])>>])

HasKey(items, k) == \E i \in 1..Len(items) : items[i][1] = k
ItemOf(items, k) == items[CHOOSE i \in 1..Len(items) : items[i][1] = k][2]

\* p[k] for a string k: a dict gives the value or KeyError; a list, None
\* or a number TypeError. An exception already in flight goes on.
SubKey(p, k) ==
  CASE IsExc(p) -> p
    [] p.t = "dict" -> IF HasKey(p.v, k) THEN ItemOf(p.v, k)
                       ELSE ExcVal("KeyError")
    [] OTHER -> ExcVal("TypeError")

\* p[0]: a list gives its first element or IndexError; a dict read from
\* JSON has string keys only, so KeyError; None or a number TypeError.
SubZero(p) ==
  CASE IsExc(p) -> p
    [] p.t = "list" -> IF Len(p.v) > 0 THEN p.v[1] ELSE ExcVal("IndexError")
    [] p.t = "dict" -> ExcVal("KeyError")
    [] OTHER -> ExcVal("TypeError")

\* p.get(k, default): only a dict has .get.
GetOr(p, k, default) ==
  IF p.t = "dict"
  THEN (IF HasKey(p.v, k) THEN ItemOf(p.v, k) ELSE default)
  ELSE ExcVal("AttributeError")

\* ---------------------------------------------------------------- tools
Return(text) == [kind |-> "return", value |-> text]
Raise(name) == [kind |-> "raise", exc |-> name]

\* response.raise_for_status(): HTTPError for 400 <= status < 600.
RaisesForStatus(status) == 400 <= status /\ status < 600

\* requests.get raised (ConnectionError, Timeout) or raise_for_status did.
RequestFailed(h) == h.kind # "response" \/ RaisesForStatus(h.status)

WeatherError == PyDict(<< <<"error", PyStr("Could not fetch weather data.")>> >>)
PlacesError ==
  PyDict(<< <<"error",
              PyStr("Sorry, I could not find nearby places at the moment.")>> >>)

\* {"temperature": data["main"]["temp"], "humidity": data["main"]["humidity"],
\*  "description": data["weather"][0]["description"]}, evaluated in that
\* order: the first subscript that raises ends it.
WeatherInfo(data) ==
  LET temp == SubKey(SubKey(data, "main"), "temp")
      hum == SubKey(SubKey(data, "main"), "humidity")
      desc == SubKey(SubZero(SubKey(data, "weather")), "description")
  IN IF IsExc(temp) THEN temp
     ELSE IF IsExc(hum) THEN hum
     ELSE IF IsExc(desc) THEN desc
     ELSE PyDict(<< <<"temperature", temp>>, <<"humidity", hum>>,
                    <<"description", desc>> >>)

\* A failed request is tried once more before the error is returned.
GetKochiWeatherRetry(h, new) ==
  IF RequestFailed(h)
  THEN [out |-> Return(JsonDumps(WeatherError)), gets |-> 2]
  ELSE IF h.body = NotJson
  THEN [out |-> IF new THEN Return(JsonDumps(WeatherError))
                ELSE Raise("ValueError"), gets |-> 1]
  ELSE LET info == WeatherInfo(JsonLoads(h.body))
       IN [out |-> IF IsExc(info) THEN Raise(info.v)
                   ELSE Return(JsonDumps(info)), gets |-> 1]

\* get_kochi_weather: one requests.get; only RequestException is caught.
\* response.json() on a body that is no JSON raises requests' own
\* JSONDecodeError (a RequestException) from requests 2.27 on, and a plain
\* ValueError before.
GetKochiWeather(h, new) ==
  IF RequestFailed(h)
  THEN [out |-> Return(JsonDumps(WeatherError)), gets |-> 1]
  ELSE IF h.body = NotJson
  THEN [out |-> IF new THEN Return(JsonDumps(WeatherError))
                ELSE Raise("ValueError"), gets |-> 1]
  ELSE LET info == WeatherInfo(JsonLoads(h.body))
       IN [out |-> IF IsExc(info) THEN Raise(info.v)
                   ELSE Return(JsonDumps(info)), gets |-> 1]

TopN == 5

\* The last five results instead of the first five.
TopResultsLast(q) ==
  IF Len(q) <= TopN THEN q ELSE SubSeq(q, Len(q) - TopN + 1, Len(q))

\* results[:5]
TopResults(q) == IF Len(q) <= TopN THEN q ELSE SubSeq(q, 1, TopN)

\* {"name": place.get("name"), "rating": place.get("rating", "N/A"),
\*  "address": place.get("vicinity", "No address available")}
PlaceEntry(place) ==
  LET name == GetOr(place, "name", PyNone)
      rating == GetOr(place, "rating", PyStr("N/A"))
      address == GetOr(place, "vicinity", PyStr("No address available"))
  IN IF IsExc(name) THEN name
     ELSE PyDict(<< <<"name", name>>, <<"rating", rating>>,
                    <<"address", address>> >>)

\* The loop over data.get("results", [])[:5]: data must be a dict, the
\* results a list (None cannot be sliced) and every place a dict.
Places(data) ==
  LET results == GetOr(data, "results", PyList(<<>>))
  IN IF IsExc(results) THEN results
     ELSE IF results.t # "list" THEN ExcVal("TypeError")
     ELSE LET top == TopResults(results.v)
              entries == [i \in 1..Len(top) |-> PlaceEntry(top[i])]
          IN IF \E i \in 1..Len(top) : IsExc(entries[i])
             THEN ExcVal("AttributeError")
             ELSE PyList(entries)

\* find_nearby_places: one requests.get; only RequestException is caught.
\* The query parameters (location, radius 1500, type, key) go into the
\* request only and do not reach the handling of the response.
FindNearbyPlaces(h, new) ==
  IF RequestFailed(h)
  THEN [out |-> Return(JsonDumps(PlacesError)), gets |-> 1]
  ELSE IF h.body = NotJson
  THEN [out |-> IF new THEN Return(JsonDumps(PlacesError))
                ELSE Raise("ValueError"), gets |-> 1]
  ELSE LET places == Places(JsonLoads(h.body))
       IN [out |-> IF IsExc(places) THEN Raise(places.v)
                   ELSE Return(JsonDumps(places)), gets |-> 1]

\* The model calls get_kochi_weather().
CallWeather ==
  /\ tool_pc = "idle"
  /\ LET r == GetKochiWeather(http, requests_new)
     IN tool_out' = r.out /\ http_calls' = r.gets
  /\ tool_pc' = "weather_done"
  /\ UNCHANGED <<http, requests_new>>
  /\ UNCHANGED <<startup_vars, bot_vars>>

\* The model calls find_nearby_places(latitude, longitude, place_type).
CallPlaces ==
  /\ tool_pc = "idle"
  /\ LET r == FindNearbyPlaces(http, requests_new)
     IN tool_out' = r.out /\ http_calls' = r.gets
  /\ tool_pc' = "places_done"
  /\ UNCHANGED <<http, requests_new>>
  /\ UNCHANGED <<startup_vars, bot_vars>>

\* ------------------------------------------------- what the providers send
Statuses == {200, 304, 404, 503}

MainOk == JObj(<< <<"temp", JNum(30)>>, <<"humidity", JNum(80)>> >>)
WeatherOk == JArr(<< JObj(<< <<"description", JStr("light rain")>> >>) >>)
WeatherBodyOk == JObj(<< <<"main", MainOk>>, <<"weather", WeatherOk>> >>)
WellFormedWeather ==
  { WeatherBodyOk,
    JObj(<< <<"coord", JNull>>,
            <<"weather", JArr(<< JObj(<< <<"id", JNum(1)>>,
                                         <<"description", JStr("haze")>> >>),
                                 JObj(<< <<"description", JStr("mist")>> >>) >>)>>,
            <<"main", JObj(<< <<"temp", JNum(0)>>, <<"feels_like", JNum(2)>>,
                              <<"humidity", JNum(55)>> >>)>> >>) }
MisshapedWeather ==
  { JObj(<<>>),
    JObj(<< <<"cod", JNum(401)>>, <<"message", JStr("Invalid API key")>> >>),
    JObj(<< <<"main", JObj(<< <<"temp", JNum(30)>> >>)>>, <<"weather", WeatherOk>> >>),
    JObj(<< <<"main", JNull>>, <<"weather", WeatherOk>> >>),
    JObj(<< <<"main", MainOk>> >>),
    JObj(<< <<"main", MainOk>>, <<"weather", JArr(<<>>)>> >>),
    JObj(<< <<"main", MainOk>>, <<"weather", JArr(<< JObj(<<>>) >>)>> >>),
    JObj(<< <<"main", MainOk>>, <<"weather", JObj(<<>>)>> >>),
    JArr(<<>>),
    JNull }

PlaceFull ==
  JObj(<< <<"name", JStr("A")>>, <<"rating", JNum(4)>>, <<"vicinity", JStr("x")>> >>)
PlaceNameOnly == JObj(<< <<"name", JStr("B")>>, <<"place_id", JStr("p")>> >>)
PlaceNoName == JObj(<< <<"vicinity", JStr("y")>>, <<"rating", JNull>> >>)
PlaceKinds == {PlaceFull, PlaceNameOnly, PlaceNoName}
ResultLists == UNION {[1..n -> PlaceKinds] : n \in 0..MaxResults}
WellFormedPlaces ==
  { JObj(<< <<"results", JArr(r)>>, <<"status", JStr("OK")>> >>) : r \in ResultLists }
    \cup { JObj(<< <<"status", JStr("REQUEST_DENIED")>> >>) }
MisshapedPlaces ==
  { JObj(<< <<"results", JNull>> >>),
    JObj(<< <<"results", JArr(<< JNull >>)>> >>),
    JObj(<< <<"results", JArr(<< PlaceFull, JStr("B") >>)>> >>) }

Bodies == {NotJson} \cup WellFormedWeather \cup MisshapedWeather
            \cup WellFormedPlaces \cup MisshapedPlaces
HttpOutcomes ==
  {[kind |-> "connection_error"], [kind |-> "timeout"]}
    \cup {[kind |-> "response", status |-> st, body |-> b] :
            st \in Statuses, b \in Bodies}

\* -------------------------------------------------------- specification
BotInit ==
  /\ user_data = [u \in Users |-> EmptyDict]
  /\ tasks = [s \in Slots |-> IdleTask]
  /\ last_loc = [u \in Users |-> NoLoc]
  /\ turns = [u \in Users |-> <<>>]

ToolIdle ==
  /\ http = [kind |-> "none"]
  /\ requests_new = TRUE
  /\ tool_pc = "idle"
  /\ tool_out = [kind |-> "none"]
  /\ http_calls = 0

StartupInit ==
  /\ env \in [KeyNames -> EnvValues]
  /\ main_pc = "check_keys"
  /\ sdk_configured = FALSE
  /\ handlers = {}

\* Application.builder().token(...).build(): updates are processed one at
\* a time.
Init == StartupInit /\ concurrent_updates = FALSE /\ BotInit /\ ToolIdle

\* The same program with handlers allowed to interleave at their awaits.
InitConc == StartupInit /\ concurrent_updates = TRUE /\ BotInit /\ ToolIdle

\* The program run with senders U writing texts T.
NextFor(U, T) ==
  \/ CheckKeys
  \/ ConfigureGenai
  \/ BuildApplication
  \/ AddHandler
  \/ RunPolling
  \/ \E u \in U : StartCommand(u)
  \/ \E u \in U : ResetCommand(u)
  \/ \E u \in U, lat \in Coords, lon \in Coords : HandleLocation(u, lat, lon)
  \/ \E s \in Slots, ok \in BOOLEAN : CommandReplyDone(s, ok)
  \/ \E u \in U, text \in T : HandleMessage(u, text)
  \/ \E s \in Slots, a \in BOOLEAN, b \in BOOLEAN : MessageAfterTyping(s, a, b)
  \/ \E s \in Slots, o \in ModelOutcomes : MessageAfterModel(s, o)
  \/ \E s \in Slots, ok \in BOOLEAN : MessageAfterReply(s, ok)
  \/ \E s \in Slots, ok \in BOOLEAN : MessageAfterApology(s, ok)

Next == NextFor(AllUsers, OneText)
NextChat == NextFor(OneUser, Texts)
NextConc == NextFor(OneUser, OneText)

\* Two users, updates handled one at a time.
Spec == Init /\ [][Next]_vars
\* One chat, two texts, updates handled one at a time.
SpecChat == Init /\ [][NextChat]_vars
\* One user whose handlers interleave.
SpecConc == InitConc /\ [][NextConc]_vars

\* The bot is polling; the model calls one tool, whose HTTP GET ends in
\* any of the outcomes, under either generation of the requests library.
InitTools ==
  /\ env = [k \in KeyNames |-> PyStr("key")]
  /\ main_pc = "polling"
  /\ sdk_configured = TRUE
  /\ handlers = {"start", "reset", "location", "message"}
  /\ concurrent_updates = FALSE
  /\ BotInit
  /\ http \in HttpOutcomes
  /\ requests_new \in BOOLEAN
  /\ tool_pc = "idle"
  /\ tool_out = [kind |-> "none"]
  /\ http_calls = 0

NextTools == CallWeather \/ CallPlaces

SpecTools == InitTools /\ [][NextTools]_vars

\* =============================================================== claims

\* ---- tools (SpecTools)
IsErrorObject(text) ==
  /\ text.j = "obj"
  /\ Len(text.v) = 1
  /\ text.v[1][1] = "error"

Is2xx(h) == h.kind = "response" /\ 200 <= h.status /\ h.status < 300

\* The body is a JSON object with the members m names.
JHas(b, k) == b.j = "obj" /\ \E i \in 1..Len(b.v) : b.v[i][1] = k
JMember(b, k) == b.v[CHOOSE i \in 1..Len(b.v) : b.v[i][1] = k][2]
JMemberOr(b, k, default) == IF JHas(b, k) THEN JMember(b, k) ELSE default

WeatherShaped(b) ==
  /\ JHas(b, "main") /\ JHas(JMember(b, "main"), "temp")
  /\ JHas(JMember(b, "main"), "humidity")
  /\ JHas(b, "weather") /\ JMember(b, "weather").j = "arr"
  /\ Len(JMember(b, "weather").v) > 0
  /\ JHas(JMember(b, "weather").v[1], "description")

PlacesShaped(b) ==
  /\ b.j = "obj"
  /\ JHas(b, "results") =>
       /\ JMember(b, "results").j = "arr"
       /\ \A i \in 1..Len(JMember(b, "results").v) :
            JMember(b, "results").v[i].j = "obj"

\* The call succeeded: a 2xx response with a body of the expected shape.
WeatherSuccess(h) == Is2xx(h) /\ h.body # NotJson /\ WeatherShaped(h.body)
PlacesSuccess(h) == Is2xx(h) /\ h.body # NotJson /\ PlacesShaped(h.body)

\* C4: whatever the HTTP call's outcome, each tool returns a JSON text and
\* raises nothing, and every failure outcome (connection failure, timeout,
\* non-2xx status, body that is no JSON, body of the wrong shape) gives a
\* JSON object whose only key is "error".
C4_AlwaysJsonNeverRaises ==
  /\ tool_pc # "idle" => tool_out.kind = "return"
  /\ tool_pc = "weather_done" /\ ~WeatherSuccess(http) =>
       tool_out.kind = "return" /\ IsErrorObject(tool_out.value)
  /\ tool_pc = "places_done" /\ ~PlacesSuccess(http) =>
       tool_out.kind = "return" /\ IsErrorObject(tool_out.value)

Min(a, b) == IF a <= b THEN a ELSE b

\* The entry the claim builds from one provider result.
ExpectedEntry(r) ==
  JObj(<< <<"name", JMemberOr(r, "name", JNull)>>,
          <<"rating", JMemberOr(r, "rating", JStr("N/A"))>>,
          <<"address", JMemberOr(r, "vicinity", JStr("No address available"))>> >>)

ExpectedPlaces(b) ==
  IF JHas(b, "results")
  THEN LET R == JMember(b, "results").v
       IN JArr([i \in 1..Min(5, Len(R)) |-> ExpectedEntry(R[i])])
  ELSE JArr(<<>>)

\* C6: on a successful response whose body has a "results" list R,
\* find_nearby_places returns the JSON list of the first min(5, |R|)
\* results in the provider's order, each as {name, rating or "N/A",
\* address = vicinity or "No address available"}; with no "results" key it
\* returns the empty list, not an error object.
C6_TopFiveMapped ==
  tool_pc = "places_done" /\ PlacesSuccess(http) =>
    /\ tool_out = Return(ExpectedPlaces(http.body))
    /\ http_calls = 1

\* Six results, the sixth unlike the first and one without a rating, cut
\* to five.
C6_Witness ==
  /\ tool_pc = "places_done" /\ PlacesSuccess(http)
  /\ JHas(http.body, "results")
  /\ Len(JMember(http.body, "results").v) = 6
  /\ JMember(http.body, "results").v[6] # JMember(http.body, "results").v[1]
  /\ JMember(http.body, "results").v[2] = PlaceNameOnly
  /\ tool_out.kind = "return" /\ Len(tool_out.value.v) = 5

ExpectedWeather(b) ==
  JObj(<< <<"temperature", JMember(JMember(b, "main"), "temp")>>,
          <<"humidity", JMember(JMember(b, "main"), "humidity")>>,
          <<"description", JMember(JMember(b, "weather").v[1], "description")>> >>)

WeatherErrorText == JObj(<< <<"error", JStr("Could not fetch weather data.")>> >>)

\* C7 as stated, in what it says of the text returned: get_kochi_weather
\* issues exactly one HTTP GET whatever the outcome; on success it returns
\* the object {temperature, humidity, description} copied from main.temp,
\* main.humidity and weather[0].description; on a request exception, which
\* every non-2xx status is said to be, what it returns is {"error": "Could
\* not fetch weather data."}.
C7_ErrorOnEveryNon2xx ==
  tool_pc = "weather_done" =>
    /\ http_calls = 1
    /\ WeatherSuccess(http) => tool_out = Return(ExpectedWeather(http.body))
    /\ ~Is2xx(http) /\ tool_out.kind = "return" =>
         tool_out = Return(WeatherErrorText)

\* C7 amended: the same, with the error object on a request exception,
\* that is a connection failure, a timeout or a 4xx or 5xx status.
C7_OneGetShapeOrError ==
  tool_pc = "weather_done" =>
    /\ http_calls = 1
    /\ WeatherSuccess(http) => tool_out = Return(ExpectedWeather(http.body))
    /\ (http.kind # "response" \/ (400 <= http.status /\ http.status < 600)) =>
         tool_out = Return(WeatherErrorText)

\* A 503 answered with the error object after a single GET.
C7_Witness ==
  /\ tool_pc = "weather_done"
  /\ http.kind = "response" /\ http.status = 503
  /\ tool_out = Return(WeatherErrorText)
  /\ http_calls = 1

\* ---- start-up (Spec)
Present(e, k) == e[k] # PyNone /\ e[k] # PyStr("")

\* C8: with any of the four keys absent or empty the process exits before
\* the model SDK is configured, before any handler is registered and before
\* polling starts; handlers are registered or polling runs only with all
\* four present and non-empty.
C8_MissingKeyIsFatal ==
  /\ (\E k \in KeyNames : ~Present(env, k)) =>
       /\ main_pc \in {"check_keys", "exited"}
       /\ ~sdk_configured
       /\ handlers = {}
  /\ (handlers # {} \/ main_pc = "polling") =>
       \A k \in KeyNames : Present(env, k)

\* The places key alone is empty and the process has exited.
C8_Witness ==
  /\ main_pc = "exited"
  /\ env["GOOGLE_PLACES_API_KEY"] = PyStr("")
  /\ \A k \in KeyNames \ {"GOOGLE_PLACES_API_KEY"} : Present(env, k)

\* ---- handlers (Spec, SpecChat, SpecConc)
StoredPair(lat, lon) ==
  [k \in {"latitude", "longitude"} |->
     IF k = "latitude" THEN PyFloat(lat) ELSE PyFloat(lon)]

\* C1: after u's location message (lat, lon), u's next text message (no
\* /reset in between) is forwarded to the model prefixed with exactly
\* those coordinates and followed by the text, not as the bare text.
C1_NextTextIsPrefixed ==
  \A s \in Slots :
    tasks[s].pc = "await_model" /\ tasks[s].loc_seen # NoLoc =>
      tasks[s].prompt =
        LocatedPrompt(tasks[s].loc_seen[1], tasks[s].loc_seen[2], tasks[s].text)

ResetStep(u) ==
  \E s \in Slots :
    /\ tasks[s].pc # "await_reply"
    /\ tasks'[s].pc = "await_reply"
    /\ tasks'[s].kind = "reset"
    /\ tasks'[s].user = u

NothingStoredBarePrompt ==
  /\ \A u \in Users : last_loc[u] = NoLoc => user_data[u] = EmptyDict
  /\ \A s \in Slots :
       tasks[s].pc = "await_model" /\ tasks[s].loc_seen = NoLoc =>
         tasks[s].prompt = tasks[s].text

\* C2: after reset_command has run for u, no latitude or longitude is
\* stored for u and every other user's stored coordinates are unchanged;
\* every text from u forwarded before u's next location message is the
\* bare text.
C2_ResetClears ==
  /\ []NothingStoredBarePrompt
  /\ [][\A u \in Users :
          ResetStep(u) =>
            /\ user_data'[u] = EmptyDict
            /\ \A v \in Users \ {u} : user_data'[v] = user_data[v]]_vars

\* /reset of u1, who had shared (1, 1), has run: nothing is stored for u1
\* and u2's coordinates are still stored.
C2_Witness ==
  /\ \E s \in Slots :
       /\ tasks[s].kind = "reset" /\ tasks[s].user = "u1"
       /\ tasks[s].pc = "done" /\ tasks[s].loc_seen = <<1, 1>>
  /\ user_data["u1"] = EmptyDict
  /\ user_data["u2"] = StoredPair(0, 1)

\* C3: the session answering a text of chat c is seeded with c's prior
\* exchanges since the last /reset, in order: n-1 of them for the n-th
\* text, none after /reset.
C3_SessionSeededWithHistory ==
  \A s \in Slots :
    tasks[s].pc = "await_model" => tasks[s].history = turns[tasks[s].user]

\* C5: whichever step of handle_message raises (typing indicator, starting
\* the session, the model call, reading the response text, sending the
\* reply), the exception stays inside and the user is sent the apology; if
\* none raises the user is sent exactly the model's response text. (When
\* sending the apology itself raises there is nothing left to send.)
C5_EveryFailureApologised ==
  \A s \in Slots :
    tasks[s].kind = "message" =>
      /\ tasks[s].pc = "done" /\ tasks[s].failed = "" =>
           tasks[s].sent = <<tasks[s].response>>
      /\ tasks[s].pc = "done" /\ tasks[s].failed # "" =>
           tasks[s].sent = <<Apology>>
      /\ tasks[s].pc = "escaped" => tasks[s].failed # "typing"

\* C9: the coordinates stored for u are exactly those of u's most recent
\* location message since u's last /reset, none if there is none: a later
\* location overwrites an earlier one, nothing expires, and /start, texts
\* and other users' updates change nothing of u's.
C9_LastWriteWins ==
  \A u \in Users :
    user_data[u] = IF last_loc[u] = NoLoc THEN EmptyDict
                   ELSE StoredPair(last_loc[u][1], last_loc[u][2])

\* u1's latest location (1, 0) is still stored after a text of u1 was
\* answered, u2 having shared nothing.
C9_Witness ==
  /\ last_loc["u1"] = <<1, 0>>
  /\ user_data["u1"] = StoredPair(1, 0)
  /\ user_data["u2"] = EmptyDict
  /\ \E s \in Slots :
       tasks[s].kind = "message" /\ tasks[s].user = "u1" /\ tasks[s].pc = "done"

\* C10: with handlers of one user interleaving at their awaits, every
\* state has both latitude and longitude stored for a user or neither, and
\* a prompt with coordinates carries the latitude and longitude of one
\* location message.
C10_PairIsAtomic ==
  /\ \A u \in Users :
       DOMAIN user_data[u] \in {{}, {"latitude", "longitude"}}
  /\ \A s \in Slots :
       tasks[s].pc = "await_model" /\ tasks[s].prompt # tasks[s].text =>
         /\ tasks[s].loc_seen # NoLoc
         /\ tasks[s].prompt =
              LocatedPrompt(tasks[s].loc_seen[1], tasks[s].loc_seen[2],
                            tasks[s].text)

\* A text of u1 is with the model, its prompt built from one location,
\* while a later location handler of u1 is suspended at its reply.
C10_Witness ==
  \E s \in Slots, t \in Slots :
    /\ tasks[s].pc = "await_model" /\ tasks[s].prompt # tasks[s].text
    /\ tasks[t].kind = "location" /\ tasks[t].pc = "await_reply"
    /\ tasks[t].user = tasks[s].user
    /\ last_loc[tasks[s].user] # tasks[s].loc_seen

====
